---- MODULE Spec2Model ----
(***************************************************************************)
(* Model of the Dynamic Memory extension (src/index.js): the interceptor   *)
(* dynamicMemoryInterceptor, its helpers paginate and summarizePage, and   *)
(* the process-wide dynamicMemory snapshot.                                *)
(*                                                                         *)
(* Text is modelled as sequences of one-character strings, so that length, *)
(* substring, trim and join are computed as the code computes them.        *)
(***************************************************************************)
EXTENDS Integers, Sequences, FiniteSets, TLC

\* ---------------------------------------------------------------- bounds
MaxChat == 3        \* longest chat the host builds by appending
MaxRuns == 2        \* interceptor invocations per behaviour
MaxPageSize == 4    \* largest pageSize tried on paginate alone
MaxBlobMsgs == 2    \* longest message list tried on paginate alone
MaxHostRuns == 1    \* invocations per behaviour when the host touches the array
MaxHostOps == 1     \* changes the host makes to the array during one run

\* ------------------------------------------------------------------ text
SystemName == <<"S", "y", "s", "t", "e", "m">>
UserName == <<"U">>
BotName == <<"B">>

Whitespace == {" ", "\n", "\t"}

\* The fixed label of the summary message; the bracketed sentence is kept as
\* one token, followed by the newline character.
MemoryLabel ==
    <<"[The following is a summarized history of past events, used for context]", "\n">>

Min(a, b) == IF a < b THEN a ELSE b

\* `${message.name}: ${message.mes}\n`
Render(m) == m.name \o <<":", " ">> \o m.mes \o <<"\n">>

\* Array.prototype.slice(from, to): 0-based, to exclusive
Slice(s, from, to) == SubSeq(s, from + 1, Min(to, Len(s)))

\* String.prototype.substring(from, to) for 0 <= from <= to: to is clamped
Substring(s, from, to) == SubSeq(s, from + 1, Min(to, Len(s)))

RECURSIVE TrimStart(_)
TrimStart(s) ==
    IF s # <<>> /\ Head(s) \in Whitespace THEN TrimStart(Tail(s)) ELSE s

RECURSIVE TrimEnd(_)
TrimEnd(s) ==
    IF s # <<>> /\ s[Len(s)] \in Whitespace
    THEN TrimEnd(SubSeq(s, 1, Len(s) - 1))
    ELSE s

\* String.prototype.trim
Trim(s) == TrimEnd(TrimStart(s))

\* Array.prototype.join(sep)
RECURSIVE Join(_, _)
Join(list, sep) ==
    IF list = <<>> THEN <<>>
    ELSE IF Len(list) = 1 THEN list[1]
    ELSE list[1] \o sep \o Join(Tail(list), sep)

\* -------------------------------------------------------------- settings
PageSizes == {12}
PresentSizes == {7, 16}
ApiKeys == {<<>>, <<"k">>}

Settings ==
    [enabled : BOOLEAN, pageSize : PageSizes,
     presentSituationSize : PresentSizes, apiKey : ApiKeys]

\* -------------------------------------------------------------- messages
\* Messages the host can append; id stands for the identity of the object.
Templates ==
    { [name |-> SystemName, mes |-> <<"r">>, is_user |-> FALSE, is_system |-> FALSE],
      [name |-> SystemName, mes |-> <<"x">>, is_user |-> TRUE, is_system |-> FALSE],
      [name |-> BotName, mes |-> <<>>, is_user |-> FALSE, is_system |-> TRUE],
      [name |-> UserName, mes |-> <<"h", "i">>, is_user |-> TRUE, is_system |-> FALSE],
      [name |-> BotName, mes |-> <<"h", "e", "l", "l", "o">>, is_user |-> FALSE,
       is_system |-> FALSE] }

NewMessage(t, id) ==
    [id |-> id, name |-> t.name, mes |-> t.mes, is_user |-> t.is_user,
     is_system |-> t.is_system, send_date |-> 0]

\* ------------------------------------------------------- window splitter
\* Variant: is_user is not looked at.
EndsPreambleIgnoreUser(m) == ~m.is_system /\ m.name # SystemName

\* The message ends the leading run of system messages (line 46).
EndsPreamble(m) == m.is_user \/ (~m.is_system /\ m.name # SystemName)

\* Variant: the scan without the early return of line 52.
RECURSIVE FindChatStartNoAbort(_, _)
FindChatStartNoAbort(c, i) ==
    IF i >= Len(c) THEN [abort |-> FALSE, chatStartIndex |-> 0]
    ELSE IF EndsPreamble(c[i + 1]) THEN [abort |-> FALSE, chatStartIndex |-> i]
    ELSE FindChatStartNoAbort(c, i + 1)

\* Lines 43-54: the forward scan, i 0-based.  abort is the early return of
\* line 52; a loop that never runs leaves chatStartIndex at 0.
RECURSIVE FindChatStart(_, _)
FindChatStart(c, i) ==
    IF i >= Len(c) THEN [abort |-> FALSE, chatStartIndex |-> 0]
    ELSE IF EndsPreamble(c[i + 1]) THEN [abort |-> FALSE, chatStartIndex |-> i]
    ELSE IF i = Len(c) - 1 THEN [abort |-> TRUE, chatStartIndex |-> 0]
    ELSE FindChatStart(c, i + 1)

\* Variant: the message that crosses the threshold is still taken into present.
RECURSIVE FindSplitIndexInclusive(_, _, _, _, _)
FindSplitIndexInclusive(w, i, presentSituationCharCount, splitIndex, size) ==
    IF i < 0 THEN splitIndex
    ELSE LET messageText == Render(w[i + 1]) IN
         IF presentSituationCharCount + Len(messageText) > size
         THEN i
         ELSE FindSplitIndexInclusive(w, i - 1,
                                      presentSituationCharCount + Len(messageText),
                                      i, size)

\* Variant: >= in place of > on line 66.
RECURSIVE FindSplitIndexStrict(_, _, _, _, _)
FindSplitIndexStrict(w, i, presentSituationCharCount, splitIndex, size) ==
    IF i < 0 THEN splitIndex
    ELSE LET messageText == Render(w[i + 1]) IN
         IF presentSituationCharCount + Len(messageText) >= size
         THEN splitIndex
         ELSE FindSplitIndexStrict(w, i - 1,
                                   presentSituationCharCount + Len(messageText),
                                   i, size)

\* Lines 60-72: the backward scan, i 0-based; returns splitIndex.
RECURSIVE FindSplitIndex(_, _, _, _, _)
FindSplitIndex(w, i, presentSituationCharCount, splitIndex, size) ==
    IF i < 0 THEN splitIndex
    ELSE LET messageText == Render(w[i + 1]) IN
         IF presentSituationCharCount + Len(messageText) > size
         THEN splitIndex
         ELSE FindSplitIndex(w, i - 1, presentSituationCharCount + Len(messageText),
                             i, size)

\* -------------------------------------------------------------- paginate
RECURSIVE FullText(_)
FullText(c) == IF c = <<>> THEN <<>> ELSE Render(Head(c)) \o FullText(Tail(c))

\* Variant: the cursor advances one character too far after each page.
RECURSIVE CutPagesSkip(_, _, _)
CutPagesSkip(fullText, startIndex, pageSize) ==
    IF startIndex < Len(fullText)
    THEN <<Substring(fullText, startIndex, startIndex + pageSize)>>
         \o CutPagesSkip(fullText, startIndex + pageSize + 1, pageSize)
    ELSE <<>>

\* Lines 126-133
RECURSIVE CutPages(_, _, _)
CutPages(fullText, startIndex, pageSize) ==
    IF startIndex < Len(fullText)
    THEN <<Substring(fullText, startIndex, startIndex + pageSize)>>
         \o CutPages(fullText, startIndex + pageSize, pageSize)
    ELSE <<>>

paginate(c, pageSize) ==
    LET fullText == FullText(c) IN
    IF Len(fullText) = 0 THEN <<>> ELSE CutPages(fullText, 0, pageSize)

\* --------------------------------------------------------- summarizePage
Null == [isNull |-> TRUE, text |-> <<>>]
Some(t) == [isNull |-> FALSE, text |-> t]

\* `if (summary)`: null and the empty string are falsy
Truthy(v) == ~v.isNull /\ v.text # <<>>

\* What the remote endpoint can do with one request.
ResponseKinds ==
    {"network_error", "http_error", "bad_json", "no_choices", "empty_choices",
     "bad_choice", "ok"}
Digits == <<"1", "2", "3", "4", "5", "6", "7", "8", "9">>

\* Contents of a well-formed answer about page k: blank, whitespace only, or a
\* detail with whitespace around it.  The detail names the page, so that the
\* digests of different pages can be told apart.
Contents(k) == {<<>>, <<" ">>, <<" ", Digits[k], "\n">>}
Outcomes(k) ==
    [kind : ResponseKinds \ {"ok"}, content : {<<>>}]
        \cup [kind : {"ok"}, content : Contents(k)]

\* The class of an outcome: the call failed, or answered with nothing but
\* whitespace, or answered with a detail.
OutcomeClass(o) ==
    IF o.kind # "ok" THEN "failed"
    ELSE IF \A i \in DOMAIN o.content : o.content[i] \in Whitespace THEN "blank"
    ELSE "detail"

Returns(v, toast) == [kind |-> "return", value |-> v, toast |-> toast]
Throws == [kind |-> "throw", value |-> Null, toast |-> 0]

\* Variant: the content is returned without .trim().
TryBlockNoTrim(o) ==
    CASE o.kind = "network_error" -> Throws
      [] o.kind = "http_error" -> Returns(Null, 1)
      [] o.kind = "bad_json" -> Throws
      [] o.kind \in {"no_choices", "empty_choices"} -> Returns(Null, 1)
      [] o.kind = "bad_choice" -> Throws
      [] OTHER -> Returns(Some(o.content), 0)

\* Lines 149-177, the body of the try block for one response.  fetch and
\* response.json() throw; so does reading .content of a malformed choice.
TryBlock(o) ==
    CASE o.kind = "network_error" -> Throws
      [] o.kind = "http_error" -> Returns(Null, 1)
      [] o.kind = "bad_json" -> Throws
      [] o.kind \in {"no_choices", "empty_choices"} -> Returns(Null, 1)
      [] o.kind = "bad_choice" -> Throws
      [] OTHER -> Returns(Some(Trim(o.content)), 0)

\* Variant: no catch clause.
summarizePageNoCatch(o) == TryBlock(o)

\* Lines 148-182: try { ... } catch (error) { toastr.error; return null }
summarizePage(o) ==
    LET r == TryBlock(o) IN
    IF r.kind = "throw" THEN Returns(Null, 1) ELSE r

\* Variant: the key is never checked.
ApiKeyNeverMissing(s) == FALSE

\* Line 140: `!apiKey`
ApiKeyMissing(s) == s.apiKey = <<>>

\* Variant: the digest is put in front of the list (unshift for push).
PushSummaryFront(sp, v) == IF Truthy(v) THEN <<v.text>> \o sp ELSE sp

\* Lines 89-91: if (summary) summarizedPages.push(summary)
PushSummary(sp, v) == IF Truthy(v) THEN Append(sp, v.text) ELSE sp

\* Variant: the length of the chat is not looked at.
GateEnabledOnly(s, c) == ~s.enabled

\* Line 36: the run returns at once
Gate(s, c) == ~s.enabled \/ Len(c) < 3

\* ------------------------------------------------------------- variables
VARIABLES
    chat,                   \* the host's message array, mutated in place
    settings,               \* extensionSettings[MODULE_NAME]
    dynamicMemory,          \* the process-wide snapshot (line 31)
    pc,                     \* "idle", "fetch" (suspended on a request), "returned", "raised"
    initialSystemMessages,  \* locals of the run in progress (lines 55-86)
    workableChat,
    historyToSummarize,
    presentChat,
    pages,
    summarizedPages,
    pageIdx,                \* 1-based position of the for-of loop over pages
    inflight,               \* page indexes whose request has not resolved
    results,                \* what summarizePage returned for each page so far
    outcomes,               \* what happened to each page's call, by class
    calls,                  \* requests issued by this run
    toasts,                 \* toastr.error calls of this run
    stage,                  \* how far the run got
    chat0,                  \* the array as it was when the run was invoked
    memory0,                \* the snapshot as it was when the run was invoked
    runs,                   \* invocations so far
    nextId,                 \* next fresh object identity
    hostOps,                \* changes the host made to the array during this run
    pgInput, pgSize, pgOut, pgPc   \* paginate applied on its own

vars ==
    <<chat, settings, dynamicMemory, pc, initialSystemMessages, workableChat,
      historyToSummarize, presentChat, pages, summarizedPages, pageIdx, inflight,
      results, outcomes, calls, toasts, stage, chat0, memory0, runs, nextId,
      hostOps, pgInput, pgSize, pgOut, pgPc>>

locals ==
    <<initialSystemMessages, workableChat, historyToSummarize, presentChat, pages,
      summarizedPages, pageIdx, inflight, results, outcomes, calls, toasts, stage>>

pgVars == <<pgInput, pgSize, pgOut, pgPc>>

\* Date.now(), in units of runs
DateNow == runs

\* Lines 42-75: the partition of the array.
Split(c, s) ==
    LET f == FindChatStart(c, 0) IN
    IF f.abort
    THEN [stage |-> "all_system", initialSystemMessages |-> <<>>,
          workableChat |-> <<>>, historyToSummarize |-> <<>>, presentChat |-> <<>>]
    ELSE LET initial == Slice(c, 0, f.chatStartIndex)
             workable == Slice(c, f.chatStartIndex, Len(c))
             splitIndex == FindSplitIndex(workable, Len(workable) - 1, 0,
                                          Len(workable), s.presentSituationSize)
             history == Slice(workable, 0, splitIndex)
             present == Slice(workable, splitIndex, Len(workable))
         IN [stage |-> IF Len(history) = 0 THEN "no_history" ELSE "summarize",
             initialSystemMessages |-> initial, workableChat |-> workable,
             historyToSummarize |-> history, presentChat |-> present]

\* Variant: a page that gave no result ends the loop (break on failure).
RECURSIVE RunLoopStopOnFailure(_, _, _)
RunLoopStopOnFailure(L, pgs, s) ==
    IF L.pageIdx > Len(pgs) THEN [L EXCEPT !.next = "finish"]
    ELSE IF L.results # <<>> /\ L.results[Len(L.results)] = Null
    THEN [L EXCEPT !.next = "finish"]
    ELSE IF ApiKeyMissing(s)
    THEN RunLoopStopOnFailure([L EXCEPT !.pageIdx = @ + 1,
                                        !.results = Append(@, Null),
                                        !.outcomes = Append(@, "no_key"),
                                        !.toasts = @ + 1], pgs, s)
    ELSE [L EXCEPT !.next = "fetch", !.calls = @ + 1]

\* Lines 87-92 up to the next suspension: with no API key summarizePage
\* returns null without a request (lines 140-144) and the loop goes on; with
\* one, the request for the page is sent and the run suspends.
RECURSIVE RunLoop(_, _, _)
RunLoop(L, pgs, s) ==
    IF L.pageIdx > Len(pgs) THEN [L EXCEPT !.next = "finish"]
    ELSE IF ApiKeyMissing(s)
    THEN RunLoop([L EXCEPT !.pageIdx = @ + 1, !.results = Append(@, Null),
                           !.outcomes = Append(@, "no_key"),
                           !.toasts = @ + 1], pgs, s)
    ELSE [L EXCEPT !.next = "fetch", !.calls = @ + 1]

\* Variant: the summary is written as a message of the character.
memoryMessageAsCharacter(id, date, memory) ==
    [id |-> id, is_user |-> FALSE, name |-> BotName, is_system |-> FALSE,
     send_date |-> date, mes |-> MemoryLabel \o Join(memory, <<"\n">>)]

\* Variant: the digests are joined with a space.
memoryMessageSpaceJoined(id, date, memory) ==
    [id |-> id, is_user |-> FALSE, name |-> SystemName, is_system |-> TRUE,
     send_date |-> date, mes |-> MemoryLabel \o Join(memory, <<" ">>)]

\* Lines 99-105
memoryMessage(id, date, memory) ==
    [id |-> id, is_user |-> FALSE, name |-> SystemName, is_system |-> TRUE,
     send_date |-> date, mes |-> MemoryLabel \o Join(memory, <<"\n">>)]

\* Variant: what the host appended during the run is kept at the end.
ReconstructKeepAppended(initial, message, present) ==
    initial \o <<message>> \o present \o SubSeq(chat, Len(chat0) + 1, Len(chat))

\* Variant: present is pushed first and the preamble last.
ReconstructSwapped(initial, message, present) == present \o <<message>> \o initial

\* Lines 108-111
Reconstruct(initial, message, present) == initial \o <<message>> \o present

\* Variant: the run's digests are added to the snapshot instead of replacing it.
FinishAppend(sp, initial, present) ==
    /\ dynamicMemory' = dynamicMemory \o sp
    /\ IF Len(sp) > 0
       THEN /\ chat' = Reconstruct(initial, memoryMessage(nextId, DateNow', sp), present)
            /\ nextId' = nextId + 1
       ELSE UNCHANGED <<chat, nextId>>

\* Variant: the array is rebuilt whether or not there is a digest.
FinishAlways(sp, initial, present) ==
    /\ dynamicMemory' = sp
    /\ chat' = Reconstruct(initial, memoryMessage(nextId, DateNow', sp), present)
    /\ nextId' = nextId + 1

\* Lines 94-113
Finish(sp, initial, present) ==
    /\ dynamicMemory' = sp
    /\ IF Len(sp) > 0
       THEN /\ chat' = Reconstruct(initial, memoryMessage(nextId, DateNow', sp), present)
            /\ nextId' = nextId + 1
       ELSE UNCHANGED <<chat, nextId>>

\* Variant: the requests for all remaining pages are sent at once.
ProceedFanOut(L, pgs, initial, present) ==
    LET R == RunLoop(L, pgs, settings) IN
    /\ pageIdx' = R.pageIdx
    /\ summarizedPages' = R.summarizedPages
    /\ results' = R.results
    /\ outcomes' = R.outcomes
    /\ calls' = R.calls
    /\ toasts' = R.toasts
    /\ IF R.next = "fetch"
       THEN /\ pc' = "fetch"
            /\ inflight' = R.pageIdx..Len(pgs)
            /\ UNCHANGED <<chat, dynamicMemory, nextId>>
       ELSE /\ pc' = "returned"
            /\ inflight' = {}
            /\ Finish(R.summarizedPages, initial, present)

\* The run goes on from loop state L until it suspends or returns.
Proceed(L, pgs, initial, present) ==
    LET R == RunLoop(L, pgs, settings) IN
    /\ pageIdx' = R.pageIdx
    /\ summarizedPages' = R.summarizedPages
    /\ results' = R.results
    /\ outcomes' = R.outcomes
    /\ calls' = R.calls
    /\ toasts' = R.toasts
    /\ IF R.next = "fetch"
       THEN /\ pc' = "fetch"
            /\ inflight' = {R.pageIdx}
            /\ UNCHANGED <<chat, dynamicMemory, nextId>>
       ELSE /\ pc' = "returned"
            /\ inflight' = {}
            /\ Finish(R.summarizedPages, initial, present)

EmptyLocals ==
    /\ initialSystemMessages = <<>>
    /\ workableChat = <<>>
    /\ historyToSummarize = <<>>
    /\ presentChat = <<>>
    /\ pages = <<>>
    /\ summarizedPages = <<>>
    /\ pageIdx = 0
    /\ inflight = {}
    /\ results = <<>>
    /\ outcomes = <<>>
    /\ calls = 0
    /\ toasts = 0
    /\ stage = "none"

PgIdle == pgInput = <<>> /\ pgSize = 1 /\ pgOut = <<>> /\ pgPc = "off"

Init ==
    /\ chat = <<>>
    /\ settings \in Settings
    /\ dynamicMemory = <<>>
    /\ pc = "idle"
    /\ EmptyLocals
    /\ chat0 = <<>>
    /\ memory0 = <<>>
    /\ runs = 0
    /\ nextId = 1
    /\ hostOps = 0
    /\ PgIdle

\* The host adds a message to the chat between generations.
HostAppend(t) ==
    /\ pc = "idle"
    /\ Len(chat) < MaxChat
    /\ chat' = Append(chat, NewMessage(t, nextId))
    /\ nextId' = nextId + 1
    /\ UNCHANGED <<settings, dynamicMemory, pc, locals, chat0, memory0, runs, hostOps,
                   pgVars>>

\* Lines 34-88: the host calls the interceptor; the run goes as far as its
\* first suspension, or returns.
Invoke ==
    /\ pc = "idle"
    /\ runs < MaxRuns
    /\ runs' = runs + 1
    /\ chat0' = chat
    /\ memory0' = dynamicMemory
    /\ UNCHANGED <<settings, hostOps, pgVars>>
    /\ IF Gate(settings, chat)
       THEN /\ stage' = "gate"
            /\ pc' = "returned"
            /\ UNCHANGED <<chat, dynamicMemory, nextId, initialSystemMessages,
                           workableChat, historyToSummarize, presentChat, pages,
                           summarizedPages, pageIdx, inflight, results, outcomes,
                           calls, toasts>>
       ELSE LET p == Split(chat, settings) IN
            /\ initialSystemMessages' = p.initialSystemMessages
            /\ workableChat' = p.workableChat
            /\ historyToSummarize' = p.historyToSummarize
            /\ presentChat' = p.presentChat
            /\ stage' = p.stage
            /\ IF p.stage # "summarize"
               THEN /\ pc' = "returned"
                    /\ UNCHANGED <<chat, dynamicMemory, nextId, pages, summarizedPages,
                                   pageIdx, inflight, results, outcomes, calls,
                                   toasts>>
               ELSE LET pgs == paginate(p.historyToSummarize, settings.pageSize) IN
                    /\ pages' = pgs
                    /\ Proceed([pageIdx |-> 1, summarizedPages |-> <<>>,
                                results |-> <<>>, outcomes |-> <<>>,
                                calls |-> 0, toasts |-> 0,
                                next |-> "loop"],
                               pgs, p.initialSystemMessages, p.presentChat)

\* Lines 149-182 and 88-113: the request in flight resolves with outcome o;
\* summarizePage returns, the loop takes the next page or the run finishes.
Resolve(o) ==
    /\ pc = "fetch"
    /\ UNCHANGED <<settings, initialSystemMessages, workableChat, historyToSummarize,
                   presentChat, pages, stage, chat0, memory0, runs, hostOps, pgVars>>
    /\ LET r == summarizePage(o) IN
       IF r.kind = "throw"
       THEN /\ pc' = "raised"
            /\ inflight' = {}
            /\ UNCHANGED <<chat, dynamicMemory, nextId, summarizedPages, pageIdx,
                           results, outcomes, calls, toasts>>
       ELSE Proceed([pageIdx |-> pageIdx + 1,
                     summarizedPages |-> PushSummary(summarizedPages, r.value),
                     results |-> Append(results, r.value),
                     outcomes |-> Append(outcomes, OutcomeClass(o)),
                     calls |-> calls, toasts |-> toasts + r.toast,
                     next |-> "loop"],
                    pages, initialSystemMessages, presentChat)

\* The host takes back control; the locals of the run are gone.
Return ==
    /\ pc \in {"returned", "raised"}
    /\ pc' = "idle"
    /\ initialSystemMessages' = <<>>
    /\ workableChat' = <<>>
    /\ historyToSummarize' = <<>>
    /\ presentChat' = <<>>
    /\ pages' = <<>>
    /\ summarizedPages' = <<>>
    /\ pageIdx' = 0
    /\ inflight' = {}
    /\ results' = <<>>
    /\ outcomes' = <<>>
    /\ calls' = 0
    /\ toasts' = 0
    /\ stage' = "none"
    /\ chat0' = <<>>
    /\ memory0' = <<>>
    /\ hostOps' = 0
    /\ UNCHANGED <<chat, settings, dynamicMemory, runs, nextId, pgVars>>

Next ==
    \/ \E t \in Templates : HostAppend(t)
    \/ Invoke
    \/ pc = "fetch" /\ \E o \in Outcomes(pageIdx) : Resolve(o)
    \/ Return

Spec == Init /\ [][Next]_vars

\* ------------------------------------------------- paginate on its own
\* Message lists of up to MaxBlobMsgs messages, the empty list included.
PaginateInputs ==
    UNION { { [i \in 1..n |-> NewMessage(f[i], i)] : f \in [1..n -> Templates] } :
            n \in 0..MaxBlobMsgs }

InitPaginate ==
    /\ chat = <<>>
    /\ settings = [enabled |-> TRUE, pageSize |-> 12, presentSituationSize |-> 16,
                   apiKey |-> <<>>]
    /\ dynamicMemory = <<>>
    /\ pc = "idle"
    /\ EmptyLocals
    /\ chat0 = <<>>
    /\ memory0 = <<>>
    /\ runs = 0
    /\ nextId = 1
    /\ hostOps = 0
    /\ pgInput \in PaginateInputs
    /\ pgSize \in 1..MaxPageSize
    /\ pgOut = <<>>
    /\ pgPc = "ready"

\* Lines 116-134: paginate(chat, pageSize) is called and returns.
ApplyPaginate ==
    /\ pgPc = "ready"
    /\ pgOut' = paginate(pgInput, pgSize)
    /\ pgPc' = "done"
    /\ UNCHANGED <<chat, settings, dynamicMemory, pc, locals, chat0, memory0, runs,
                   nextId, hostOps, pgInput, pgSize>>

NextPaginate == ApplyPaginate

SpecPaginate == InitPaginate /\ [][NextPaginate]_vars

\* ------------------------------- the host touches the array during a run
\* While the run is suspended on a request the host is free to run: it can
\* append to the array, remove or replace an element, or edit a message
\* object in place.  The slices of lines 55-56 and 74-75 are new arrays that
\* hold the same message objects, so an edit in place shows through them.
HostBusy == pc = "fetch" /\ hostOps < MaxHostOps

RunFrame ==
    <<settings, dynamicMemory, pc, pages, summarizedPages, pageIdx, inflight,
      results, outcomes, calls, toasts, stage, chat0, memory0, runs, pgVars>>

slices == <<initialSystemMessages, workableChat, historyToSummarize, presentChat>>

EditedText == <<"e", "d">>

\* The messages the host builds the chat from in this specification: a
\* hidden system message and a character message.
HostTemplates == {t \in Templates : t.name = BotName}

\* What the host writes when it appends or replaces during a run.
LateMessage == [name |-> UserName, mes |-> <<"h", "i">>, is_user |-> TRUE, is_system |-> FALSE]

\* The object with identity id gets a new mes, in whatever array holds it.
EditIn(c, id) ==
    [k \in DOMAIN c |-> IF c[k].id = id THEN [c[k] EXCEPT !.mes = EditedText] ELSE c[k]]

RemoveAt(c, i) == SubSeq(c, 1, i - 1) \o SubSeq(c, i + 1, Len(c))

HostAppendDuring ==
    /\ HostBusy
    /\ chat' = Append(chat, NewMessage(LateMessage, nextId))
    /\ nextId' = nextId + 1
    /\ hostOps' = hostOps + 1
    /\ UNCHANGED <<RunFrame, slices>>

HostRemoveDuring(i) ==
    /\ HostBusy
    /\ i \in DOMAIN chat
    /\ chat' = RemoveAt(chat, i)
    /\ hostOps' = hostOps + 1
    /\ UNCHANGED <<RunFrame, slices, nextId>>

HostReplaceDuring(i) ==
    /\ HostBusy
    /\ i \in DOMAIN chat
    /\ chat' = [chat EXCEPT ![i] = NewMessage(LateMessage, nextId)]
    /\ nextId' = nextId + 1
    /\ hostOps' = hostOps + 1
    /\ UNCHANGED <<RunFrame, slices>>

HostEditDuring(i) ==
    /\ HostBusy
    /\ chat' = EditIn(chat, chat[i].id)
    /\ initialSystemMessages' = EditIn(initialSystemMessages, chat[i].id)
    /\ workableChat' = EditIn(workableChat, chat[i].id)
    /\ historyToSummarize' = EditIn(historyToSummarize, chat[i].id)
    /\ presentChat' = EditIn(presentChat, chat[i].id)
    /\ hostOps' = hostOps + 1
    /\ UNCHANGED <<RunFrame, nextId>>

\* One outcome without a digest and the one with a digest: the other
\* failures and the blank answers leave the run in the same state.
HostOutcomes(k) ==
    {o \in Outcomes(k) : o.kind = "http_error" \/ OutcomeClass(o) = "detail"}

InitHost == Init /\ settings.enabled /\ settings.apiKey # <<>>

NextHost ==
    \/ \E t \in HostTemplates : HostAppend(t)
    \/ runs < MaxHostRuns /\ Invoke
    \/ pc = "fetch" /\ \E o \in HostOutcomes(pageIdx) : Resolve(o)
    \/ Return
    \/ HostAppendDuring
    \/ HostRemoveDuring(Len(chat))
    \/ HostReplaceDuring(1)
    \/ \E i \in DOMAIN chat : HostEditDuring(i)

SpecHost == InitHost /\ [][NextHost]_vars

\* ------------------------------------------------------------ properties
RECURSIVE Flatten(_)
Flatten(ss) == IF ss = <<>> THEN <<>> ELSE Head(ss) \o Flatten(Tail(ss))

\* C8: for any message list and pageSize > 0, every page paginate returns has
\* length <= pageSize, all pages but the last have length exactly pageSize,
\* the pages concatenated in order are exactly the rendered blob of the
\* input, and an empty blob yields zero pages.
C8_PaginateBounded ==
    pgPc = "done" =>
        /\ \A k \in DOMAIN pgOut : Len(pgOut[k]) <= pgSize /\ Len(pgOut[k]) > 0
        /\ \A k \in DOMAIN pgOut : k < Len(pgOut) => Len(pgOut[k]) = pgSize
        /\ Flatten(pgOut) = Flatten([i \in DOMAIN pgInput |-> Render(pgInput[i])])
        /\ (pgInput = <<>> => pgOut = <<>>)

\* A 10-character blob cut with pageSize 4 into pages of 4, 4 and 2
\* characters (the shape of 5000 characters with pageSize 2000).
C8_Witness ==
    /\ pgPc = "done"
    /\ pgSize = 4
    /\ Len(pgOut) = 3
    /\ Len(pgOut[1]) = 4 /\ Len(pgOut[2]) = 4 /\ Len(pgOut[3]) = 2

\* A run is in progress or has just ended (the host has not resumed).
InRun == pc \in {"fetch", "returned", "raised"}

\* The run got past the gate and the preamble scan, into the window splitter.
SplitterRan == stage \in {"no_history", "summarize"}

\* A system/preamble message: system-flagged or named "System", not user-authored.
IsPreambleMsg(m) == ~m.is_user /\ (m.is_system \/ m.name = SystemName)

RenderedLen(c) == Len(Flatten([i \in DOMAIN c |-> Render(c[i])]))

\* The run's digest list: the non-empty strings among the per-page results.
RunDigests ==
    LET kept == SelectSeq(results, LAMBDA r : ~r.isNull /\ r.text # <<>>)
    IN [i \in DOMAIN kept |-> kept[i].text]

Ids(c) == {c[i].id : i \in DOMAIN c}

\* The most recent message of the chat, rendered, is longer than the threshold.
LastMessageTooLong ==
    /\ chat0 # <<>>
    /\ Len(Render(chat0[Len(chat0)])) > settings.presentSituationSize

\* C1 as stated: when the most recent message alone renders longer than
\* presentSituationSize, history is empty and the sequence is not mutated.
C1_Original ==
    (InRun /\ SplitterRan /\ LastMessageTooLong) =>
        (historyToSummarize = <<>> /\ chat = chat0)

\* C1 amended: when the most recent message alone renders longer than
\* presentSituationSize, present is empty and history is the whole workable
\* sequence; the sequence is not mutated while calls are pending nor when no
\* page yields a digest, and otherwise becomes the preamble followed by the
\* summary message alone.
C1_PresentEmptyHistoryAll ==
    (InRun /\ SplitterRan /\ LastMessageTooLong) =>
        /\ presentChat = <<>>
        /\ historyToSummarize = workableChat
        /\ historyToSummarize # <<>>
        /\ initialSystemMessages \o historyToSummarize = chat0
        /\ (pc = "fetch" \/ RunDigests = <<>>) => chat = chat0
        /\ (pc = "returned" /\ RunDigests # <<>>) =>
               /\ Len(chat) = Len(initialSystemMessages) + 1
               /\ SubSeq(chat, 1, Len(initialSystemMessages)) = initialSystemMessages

C1_Witness ==
    /\ pc = "returned" /\ SplitterRan /\ LastMessageTooLong
    /\ initialSystemMessages # <<>>
    /\ chat # chat0

\* C2 as stated: after a run that reaches reconstruction, the output has
\* len(preamble) + (1 if digests non-empty else 0) + len(present) messages and
\* holds the preamble and present messages unchanged and in order, whether or
\* not the digest list is empty.
C2_Original ==
    (pc = "returned" /\ stage = "summarize") =>
        /\ Len(chat) = Len(initialSystemMessages)
                       + (IF RunDigests # <<>> THEN 1 ELSE 0) + Len(presentChat)
        /\ SubSeq(chat, 1, Len(initialSystemMessages)) = initialSystemMessages
        /\ SubSeq(chat, Len(chat) - Len(presentChat) + 1, Len(chat)) = presentChat

\* C2 amended: after a run that reaches reconstruction, the output starts with
\* the preamble messages and ends with the present messages, unchanged and in
\* order; between them is exactly one message when the digest list is
\* non-empty, and the untouched history messages when it is empty.
C2_ReconstructionCount ==
    (pc = "returned" /\ stage = "summarize") =>
        /\ Len(chat) = Len(initialSystemMessages)
                       + (IF RunDigests # <<>> THEN 1 ELSE Len(historyToSummarize))
                       + Len(presentChat)
        /\ SubSeq(chat, 1, Len(initialSystemMessages)) = initialSystemMessages
        /\ SubSeq(chat, Len(chat) - Len(presentChat) + 1, Len(chat)) = presentChat
        /\ initialSystemMessages = SubSeq(chat0, 1, Len(initialSystemMessages))
        /\ presentChat = SubSeq(chat0, Len(chat0) - Len(presentChat) + 1, Len(chat0))
        /\ RunDigests = <<>> => chat = chat0

C2_Witness ==
    /\ pc = "returned" /\ stage = "summarize"
    /\ RunDigests # <<>>
    /\ initialSystemMessages # <<>>
    /\ presentChat # <<>>

\* C3 as stated: after any run, structural no-ops included, the snapshot
\* holds exactly that run's digests.
C3_Original == pc = "returned" => dynamicMemory = RunDigests

\* C3 amended: a run that reaches summarization (non-empty history)
\* overwrites the snapshot with exactly that run's digests, an empty list
\* included, keeping nothing of an earlier run; a run that returns before
\* (disabled, short chat, all preamble, empty history) leaves the snapshot as
\* it was.
C3_SnapshotOverwritten ==
    pc = "returned" =>
        IF stage = "summarize"
        THEN dynamicMemory = RunDigests
        ELSE dynamicMemory = memory0

C3_Witness ==
    /\ pc = "returned" /\ stage = "summarize"
    /\ memory0 # <<>>
    /\ dynamicMemory # <<>>
    /\ dynamicMemory # memory0

\* C4: when some page yields a non-empty digest, the sequence after the run
\* is the preamble, then one synthetic system message whose body is the label
\* followed by the digests joined by newlines, then the present messages; no
\* history message remains.
C4_ReconstructedSequence ==
    (pc = "returned" /\ stage = "summarize" /\ RunDigests # <<>>) =>
        LET n == Len(initialSystemMessages)
            k == Len(presentChat)
            m == chat[n + 1]
        IN /\ Len(chat) = n + 1 + k
           /\ SubSeq(chat, 1, n) = SubSeq(chat0, 1, n)
           /\ SubSeq(chat, n + 2, n + 1 + k) = SubSeq(chat0, Len(chat0) - k + 1, Len(chat0))
           /\ n + Len(historyToSummarize) + k = Len(chat0)
           /\ m.is_system /\ ~m.is_user /\ m.name = SystemName
           /\ m.mes = MemoryLabel \o Join(RunDigests, <<"\n">>)
           /\ m.id \notin Ids(chat0)
           /\ Ids(chat) \cap Ids(historyToSummarize) = {}
           /\ Ids(chat) \ {m.id} \subseteq Ids(chat0)

C4_Witness ==
    /\ pc = "returned" /\ stage = "summarize"
    /\ Len(RunDigests) >= 2
    /\ Len(historyToSummarize) >= 2
    /\ presentChat # <<>>

\* C5: on a sequence made only of system/preamble messages a run does not
\* mutate the sequence and issues no remote call.
C5_AllPreambleNoOp ==
    (InRun /\ \A i \in DOMAIN chat0 : IsPreambleMsg(chat0[i])) =>
        /\ pc = "returned"
        /\ chat = chat0
        /\ calls = 0
        /\ inflight = {}

C5_Witness ==
    /\ pc = "returned" /\ stage = "all_system"
    /\ Len(chat0) >= 3
    /\ \A i \in DOMAIN chat0 : IsPreambleMsg(chat0[i])

\* C6: if the workable messages together render to at most
\* presentSituationSize characters, history is empty, present is the whole
\* workable sequence, no remote call is issued and the sequence is unchanged.
C6_ShortWorkableNoOp ==
    (InRun /\ SplitterRan
        /\ RenderedLen(workableChat) <= settings.presentSituationSize) =>
        /\ historyToSummarize = <<>>
        /\ presentChat = workableChat
        /\ initialSystemMessages \o workableChat = chat0
        /\ pc = "returned"
        /\ calls = 0
        /\ chat = chat0

C6_Witness ==
    /\ pc = "returned" /\ stage = "no_history"
    /\ Len(workableChat) >= 2
    /\ RenderedLen(workableChat) = settings.presentSituationSize

\* C7: if every page's call fails or returns an empty or whitespace-only
\* digest, the digest list is empty and the sequence after the run is the
\* sequence before it.
C7_AllPagesBlankNoOp ==
    (pc = "returned" /\ stage = "summarize"
        /\ \A k \in DOMAIN outcomes : outcomes[k] \in {"failed", "blank", "no_key"}) =>
        /\ summarizedPages = <<>>
        /\ dynamicMemory = <<>>
        /\ chat = chat0

C7_Witness ==
    /\ pc = "returned" /\ stage = "summarize"
    /\ \E j, k \in DOMAIN outcomes : outcomes[j] = "failed" /\ outcomes[k] = "blank"
    /\ "detail" \notin {outcomes[k] : k \in DOMAIN outcomes}
    /\ chat = chat0

\* C9: with an absent or empty apiKey a run issues no remote request; every
\* page's summarization returns no digest after surfacing an error, all pages
\* are gone through, and the sequence is left unmodified.
C9_NoKeyNoRequest ==
    (InRun /\ stage = "summarize" /\ settings.apiKey = <<>>) =>
        /\ pc = "returned"
        /\ calls = 0
        /\ inflight = {}
        /\ Len(results) = Len(pages)
        /\ \A k \in DOMAIN results : results[k] = Null
        /\ toasts = Len(pages)
        /\ chat = chat0

C9_Witness ==
    /\ pc = "returned" /\ stage = "summarize"
    /\ settings.apiKey = <<>>
    /\ Len(pages) >= 2

\* C10: whatever the outcome of a remote call (non-success status, missing or
\* empty choice list, thrown exception), summarizePage returns no digest
\* instead of raising, surfacing one error, and no error propagates out of
\* the entry point: the run never ends by raising.
C10_FailuresAbsorbed ==
    /\ pc # "raised"
    /\ InRun =>
           /\ Len(outcomes) = Len(results)
           /\ \A k \in DOMAIN outcomes : outcomes[k] = "failed" => results[k] = Null
           /\ toasts = Cardinality({k \in DOMAIN outcomes :
                                       outcomes[k] \in {"failed", "no_key"}})

C10_Witness ==
    /\ pc = "returned" /\ stage = "summarize"
    /\ calls >= 2
    /\ \A k \in DOMAIN outcomes : outcomes[k] = "failed"

\* C11: with a credential and a non-empty history exactly one remote call
\* is attempted for each page, whatever the earlier outcomes: no page is
\* retried and none is skipped, so a finished run made as many calls as
\* there are pages.
C11_OneCallPerPage ==
    (InRun /\ stage = "summarize" /\ settings.apiKey # <<>>) =>
        /\ pages # <<>>
        /\ pc = "fetch" => calls = Len(results) + 1 /\ calls <= Len(pages)
        /\ pc = "returned" => calls = Len(pages) /\ Len(results) = Len(pages)
        /\ \A k \in DOMAIN outcomes : outcomes[k] # "no_key"

C11_Witness ==
    /\ pc = "returned" /\ stage = "summarize"
    /\ settings.apiKey # <<>>
    /\ Len(pages) >= 2
    /\ outcomes[1] = "failed"
    /\ calls = Len(pages)

\* C12: pages are summarized one at a time: the call for page k+1 starts
\* only after the call for page k has resolved, so at most one request of
\* the run is in flight.
C12_Sequential ==
    /\ Cardinality(inflight) <= 1
    /\ \A k \in inflight : pc = "fetch" /\ k = Len(results) + 1 /\ k = calls
    /\ (pc = "fetch") => inflight # {}

C12_Witness ==
    /\ pc = "fetch"
    /\ inflight = {2}
    /\ Len(results) = 1

\* The page a digest came from (the digest of page k is the digit k).
PageOf(d) == CHOOSE k \in DOMAIN Digits : d = <<Digits[k]>>

\* C13: the digest list is the subsequence, in page order, of the per-page
\* results that are non-empty strings; failed pages and empty-after-trim
\* digests are left out.
C13_DigestsInPageOrder ==
    (InRun /\ stage = "summarize") =>
        /\ summarizedPages = RunDigests
        /\ pc = "returned" => dynamicMemory = RunDigests
        /\ Len(summarizedPages)
               = Cardinality({k \in DOMAIN outcomes : outcomes[k] = "detail"})
        /\ \A i \in DOMAIN summarizedPages :
               /\ outcomes[PageOf(summarizedPages[i])] = "detail"
               /\ \A j \in DOMAIN summarizedPages :
                      i < j => PageOf(summarizedPages[i]) < PageOf(summarizedPages[j])

\* A first page with a digest and a second page with an empty one.
C13_Witness ==
    /\ pc = "returned" /\ stage = "summarize"
    /\ outcomes = <<"detail", "blank">>
    /\ dynamicMemory = << <<"1">> >>

\* C14: the sequence is unchanged as long as a call of the run is pending;
\* it is replaced only when the last page's call has resolved, once if the
\* digest list is non-empty and not at all if it is empty.
C14_WrittenOnceAtEnd ==
    /\ pc = "fetch" => chat = chat0 /\ nextId \notin Ids(chat)
    /\ (pc = "returned" /\ stage = "summarize") =>
           /\ Len(results) = Len(pages)
           /\ IF RunDigests = <<>>
              THEN chat = chat0
              ELSE /\ chat # chat0
                   /\ Cardinality(Ids(chat) \ Ids(chat0)) = 1

\* A digest is already collected, a later call is pending, the sequence is
\* still as it was.
C14_Witness ==
    /\ pc = "fetch"
    /\ RunDigests # <<>>
    /\ chat = chat0

\* C15: when the input is not entirely preamble the splitter's outputs are
\* contiguous, disjoint and in order and cover the input: preamble ++
\* history ++ present is the original sequence, and the preamble is the
\* maximal leading run of messages that are not user-authored and are
\* system-flagged or named "System".
C15_Partition ==
    /\ (InRun /\ ~Gate(settings, chat0)
            /\ \E i \in DOMAIN chat0 : ~IsPreambleMsg(chat0[i])) => SplitterRan
    /\ (InRun /\ SplitterRan) =>
           LET n == Len(initialSystemMessages) IN
           /\ initialSystemMessages \o historyToSummarize \o presentChat = chat0
           /\ historyToSummarize \o presentChat = workableChat
           /\ \A i \in 1..n : IsPreambleMsg(chat0[i])
           /\ n < Len(chat0)
           /\ ~IsPreambleMsg(chat0[n + 1])

C15_Witness ==
    /\ InRun /\ SplitterRan
    /\ initialSystemMessages # <<>>
    /\ historyToSummarize # <<>>
    /\ presentChat # <<>>
    /\ chat0[Len(initialSystemMessages) + 1].name = SystemName

\* C16: present is the longest suffix of the workable messages whose
\* rendered total is at most presentSituationSize: the total of present never
\* exceeds it, and with a non-empty history the last history message added to
\* present would exceed it.
C16_LongestSuffix ==
    (InRun /\ SplitterRan) =>
        /\ RenderedLen(presentChat) <= settings.presentSituationSize
        /\ presentChat
               = SubSeq(workableChat, Len(workableChat) - Len(presentChat) + 1,
                        Len(workableChat))
        /\ historyToSummarize # <<>> =>
               RenderedLen(<<historyToSummarize[Len(historyToSummarize)]>>
                               \o presentChat)
                   > settings.presentSituationSize

C16_Witness ==
    /\ InRun /\ stage = "summarize"
    /\ RenderedLen(presentChat) = settings.presentSituationSize
    /\ Len(presentChat) >= 2

\* The workable messages from position j on.
WorkableFrom(j) == SubSeq(workableChat, j, Len(workableChat))

\* Position of the first message, going backward, that no longer fits in full.
CrossIdx ==
    CHOOSE j \in DOMAIN workableChat :
        /\ RenderedLen(WorkableFrom(j)) > settings.presentSituationSize
        /\ RenderedLen(WorkableFrom(j + 1)) <= settings.presentSituationSize

\* Some message does not fit in full, but a part of it would.
PartWouldFit ==
    /\ InRun /\ SplitterRan
    /\ RenderedLen(workableChat) > settings.presentSituationSize
    /\ RenderedLen(WorkableFrom(CrossIdx + 1)) < settings.presentSituationSize

\* C17 as stated: a message of which only a part would fit under the
\* threshold is included in present in full.
C17_Original == PartWouldFit => presentChat = WorkableFrom(CrossIdx)

\* C17 amended: a message of which only a part would fit under the threshold
\* is left out of present in full and is the last message of history;
\* messages are always kept whole, never split.
C17_PartialExcludedWhole ==
    PartWouldFit =>
        /\ presentChat = WorkableFrom(CrossIdx + 1)
        /\ historyToSummarize = SubSeq(workableChat, 1, CrossIdx)
        /\ RenderedLen(presentChat) < settings.presentSituationSize

C17_Witness ==
    /\ PartWouldFit
    /\ presentChat # <<>>
    /\ Len(historyToSummarize) >= 2

\* A summary message written by a run: its body starts with the fixed label.
IsSummary(m) ==
    Len(m.mes) >= Len(MemoryLabel) /\ SubSeq(m.mes, 1, Len(MemoryLabel)) = MemoryLabel

Summaries(c) == SelectSeq(c, IsSummary)

\* C18: a summary message written by an earlier run is preamble for every
\* later run: it is not paged, summarized, altered or removed, and a later
\* run with a non-empty digest list adds one more summary message right after
\* the preamble instead of replacing it.
C18_SummaryKept ==
    InRun =>
        /\ \A i \in DOMAIN chat0 :
               IsSummary(chat0[i]) =>
                   /\ IsPreambleMsg(chat0[i])
                   /\ \A j \in 1..i : IsPreambleMsg(chat0[j])
                   /\ chat[i] = chat0[i]
                   /\ SplitterRan => initialSystemMessages[i] = chat0[i]
        /\ (pc = "returned" /\ stage = "summarize" /\ RunDigests # <<>>) =>
               /\ Len(Summaries(chat)) = Len(Summaries(chat0)) + 1
               /\ IsSummary(chat[Len(initialSystemMessages) + 1])
               /\ SubSeq(Summaries(chat), 1, Len(Summaries(chat0))) = Summaries(chat0)
        /\ (pc = "returned" /\ RunDigests = <<>>) => Summaries(chat) = Summaries(chat0)

C18_Witness ==
    /\ pc = "returned" /\ stage = "summarize"
    /\ RunDigests # <<>>
    /\ Summaries(chat0) # <<>>
    /\ Len(Summaries(chat)) = 2

\* C20: with enabled false or fewer than 3 messages the run returns at
\* once: no remote call, and the sequence and the snapshot are as they were.
C20_GateNoOp ==
    (InRun /\ (~settings.enabled \/ Len(chat0) < 3)) =>
        /\ pc = "returned"
        /\ stage = "gate"
        /\ calls = 0
        /\ inflight = {}
        /\ toasts = 0
        /\ chat = chat0
        /\ dynamicMemory = memory0

\* A two-message chat under an enabled setting, longer than the threshold,
\* with a snapshot left by an earlier run.
C20_Witness ==
    /\ pc = "returned" /\ stage = "gate"
    /\ settings.enabled
    /\ Len(chat0) = 2
    /\ RenderedLen(chat0) > settings.presentSituationSize
    /\ memory0 # <<>>
    /\ dynamicMemory = memory0

IdSeq(c) == [i \in DOMAIN c |-> c[i].id]

\* The partitions as they were at invocation, taken from the snapshot chat0.
Preamble0 == SubSeq(chat0, 1, Len(initialSystemMessages))
Present0 == SubSeq(chat0, Len(chat0) - Len(presentChat) + 1, Len(chat0))
History0 == SubSeq(chat0, Len(initialSystemMessages) + 1, Len(chat0) - Len(presentChat))

DigestRunEnded == pc = "returned" /\ stage = "summarize" /\ RunDigests # <<>>

\* C19 as stated: after a run with a non-empty digest list the sequence is
\* the preamble and present partitions as computed at invocation plus the
\* summary message; nothing the host appended, removed or changed during the
\* run is in it.
C19_Original ==
    DigestRunEnded =>
        chat = Preamble0 \o <<chat[Len(initialSystemMessages) + 1]>> \o Present0

\* C19 amended: after a run with a non-empty digest list the sequence holds
\* exactly the message objects of the preamble and present partitions
\* computed at invocation, with the summary message between them: nothing
\* the host appended, removed or replaced in the array during the run is in
\* it, and the summary is made from the pages rendered at invocation.  An
\* edit the host made in place to a preamble or present message object is in
\* it, as the partitions hold the objects themselves.
C19_BuiltFromPartitions ==
    DigestRunEnded =>
        LET n == Len(initialSystemMessages)
            m == chat[n + 1]
        IN /\ IdSeq(chat) = IdSeq(Preamble0) \o <<m.id>> \o IdSeq(Present0)
           /\ chat = initialSystemMessages \o <<m>> \o presentChat
           /\ m.id \notin Ids(chat0)
           /\ m.mes = MemoryLabel \o Join(RunDigests, <<"\n">>)
           /\ pages = paginate(History0, settings.pageSize)
           /\ \A i \in DOMAIN chat :
                  i # n + 1 =>
                      \E j \in DOMAIN chat0 :
                          /\ chat0[j].id = chat[i].id
                          /\ chat[i] \in {chat0[j], [chat0[j] EXCEPT !.mes = EditedText]}

C19_Witness ==
    /\ DigestRunEnded
    /\ hostOps >= 1
    /\ presentChat # <<>>
    /\ presentChat # Present0

====
